---- MODULE Spec2Model ----
(***************************************************************************)
(* BrahmaMatch backend: OTP send / verify, the Users collection, and the   *)
(* session token.  The repository holds three entry points that implement *)
(* the same flow against the same collection:                              *)
(*    "app"  : src/app (routes/auth.py + services/user_service.py)         *)
(*    "anuj" : src/anuj.py                                                 *)
(*    "main" : src/main.py                                                 *)
(* One of them is deployed; `entry' is fixed in Init.  Every awaited store *)
(* call and every provider call is one atomic step of a request.           *)
(* The handlers only copy timestamps, they never compare them: the clock   *)
(* of the request model advances by one with every request that starts.    *)
(***************************************************************************)
EXTENDS Integers, Sequences, FiniteSets, TLC

VARIABLES entry, configured, docs, clock, nextOid, reqs, tok, auth, profiles,
          caller, rawPhone, normalized

vars == <<entry, configured, docs, clock, nextOid, reqs, tok, auth, profiles,
         caller, rawPhone, normalized>>

(***************************************************************************)
(* Bounds                                                                  *)
(***************************************************************************)
\* concurrent request slots
NumReqs == 2
\* how many of the raw phone inputs of RawPhones requests may carry
NumRaw == 2
\* clock ticks per second (datetime.now() is finer than a token's seconds)
TicksPerSecond == 2
\* issue times (ticks) and horizon (ticks past expiry) of the token model
MaxIssue == 3
Horizon == 4

(***************************************************************************)
(* Program constants                                                       *)
(***************************************************************************)
JWT_EXPIRES_MINUTES == 60
SecondsPerMinute == 60

Entries == {"app", "anuj", "main"}

\* Python's None: a missing document, an unset token
None == [none |-> TRUE]

(***************************************************************************)
(* Phones are sequences of one-character strings.                          *)
(***************************************************************************)
Digits == {"0", "1", "2", "3", "4", "5", "6", "7", "8", "9"}

Ten == <<"9", "8", "7", "6", "5", "4", "3", "2", "1", "0">>

RawPhones ==
  << Ten,
     <<"+", "1", "5", "5", "5", "0", "0", "0", "1">>,
     <<"+", "9", "1">> \o Ten,
     <<"0">> \o Ten >>

RECURSIVE lstrip(_)
lstrip(s) == IF s # <<>> /\ Head(s) = " " THEN lstrip(Tail(s)) ELSE s

RECURSIVE rstrip(_)
rstrip(s) ==
  IF s # <<>> /\ s[Len(s)] = " " THEN rstrip(SubSeq(s, 1, Len(s) - 1)) ELSE s

strip(s) == rstrip(lstrip(s))

isdigit(ch) == ch \in Digits

RECURSIVE digitsOf(_)
digitsOf(s) ==
  IF s = <<>> THEN <<>>
  ELSE IF isdigit(Head(s)) THEN <<Head(s)>> \o digitsOf(Tail(s))
       ELSE digitsOf(Tail(s))

\* mutant: eleven digits are cut to ten whatever the first digit is
normalize_phone_AnyEleven(raw) ==
  LET phone == strip(raw)
      digits == digitsOf(phone)
  IN IF phone # <<>> /\ Head(phone) = "+" THEN phone
     ELSE IF Len(digits) = 10 THEN <<"+", "9", "1">> \o digits
     ELSE IF Len(digits) = 11 THEN <<"+", "9", "1">> \o Tail(digits)
     ELSE <<"+">> \o digits

normalize_phone(raw) ==
  LET phone == strip(raw)
      digits == digitsOf(phone)
  IN IF phone # <<>> /\ Head(phone) = "+" THEN phone
     ELSE IF Len(digits) = 10 THEN <<"+", "9", "1">> \o digits
     ELSE IF Len(digits) = 11 /\ Head(digits) = "0"
          THEN <<"+", "9", "1">> \o Tail(digits)
     ELSE <<"+">> \o digits


(***************************************************************************)
(* The Users collection: a sequence of documents in insertion order.  A    *)
(* document is a record whose DOMAIN is the set of fields it has.          *)
(***************************************************************************)

\* mutant: no unique index on phone
ensure_indexes_NoPhone(e) == IF e = "main" THEN {} ELSE {"user_id"}

\* unique indexes created at startup; the one on user_id is sparse
ensure_indexes(e) == IF e = "main" THEN {"phone"} ELSE {"phone", "user_id"}

\* would document d, stored at position skip (0: not stored yet), collide?
DuplicateKeyError(col, d, skip, e) ==
  \E i \in 1..Len(col), f \in ensure_indexes(e) :
     /\ i # skip
     /\ f \in DOMAIN d
     /\ f \in DOMAIN col[i]
     /\ col[i][f] = d[f]

\* position of the first document matching {field: value}, 0 when none does
Match(col, field, value) ==
  LET hits == {i \in 1..Len(col) : field \in DOMAIN col[i] /\ col[i][field] = value}
  IN IF hits = {} THEN 0 ELSE CHOOSE i \in hits : \A j \in hits : i <= j

find_one(col, field, value) ==
  LET i == Match(col, field, value) IN IF i = 0 THEN None ELSE col[i]

\* projection {"_id": 0}
NoId(d) == IF d = None THEN None ELSE [f \in (DOMAIN d) \ {"_id"} |-> d[f]]

\* {"$set": fields} applied to one document
SetFields(d, fields) == fields @@ d

\* update_one(filter, {"$set": fields}) without upsert: the collection after
update_one(col, field, value, fields) ==
  LET i == Match(col, field, value)
  IN IF i = 0 THEN col ELSE [col EXCEPT ![i] = SetFields(col[i], fields)]

\* mutant: $setOnInsert is applied to a matched document as well
upsert_one_AlwaysOnInsert(col, p, onInsert, fields, oid) ==
  IF Match(col, "phone", p) = 0
  THEN Append(col, SetFields(SetFields([_id |-> oid, phone |-> p], onInsert), fields))
  ELSE update_one(col, "phone", p, SetFields(onInsert, fields))

\* update_one({"phone": p}, {"$setOnInsert": onInsert, "$set": fields}, upsert=True)
upsert_one(col, p, onInsert, fields, oid) ==
  IF Match(col, "phone", p) = 0
  THEN Append(col, SetFields(SetFields([_id |-> oid, phone |-> p], onInsert), fields))
  ELSE update_one(col, "phone", p, fields)

delete_one(col, field, value) ==
  LET i == Match(col, field, value)
  IN IF i = 0 THEN col
     ELSE SubSeq(col, 1, i - 1) \o SubSeq(col, i + 1, Len(col))

(***************************************************************************)
(* Session token.  jwt.encode stores iat and exp as whole seconds.         *)
(***************************************************************************)
Seconds(t) == t \div TicksPerSecond

LifetimeTicks == JWT_EXPIRES_MINUTES * SecondsPerMinute * TicksPerSecond

\* mutant: exp is the issue time, the lifetime is not added
create_jwt_token_NoLifetime(phone, t) ==
  [sub |-> phone, iat |-> Seconds(t), exp |-> Seconds(t), sig |-> "ok"]

\* payload {"sub": phone, "iat": now, "exp": now + timedelta(minutes=...)},
\* signed with JWT_SECRET
create_jwt_token(phone, t) ==
  [sub |-> phone, iat |-> Seconds(t), exp |-> Seconds(t + LifetimeTicks), sig |-> "ok"]

\* jwt.decode(token, JWT_SECRET, algorithms=[JWT_ALGORITHM]) at clock tick t:
\* the payload, or the exception raised.  A token is rejected
\* once the clock has passed exp; inside the second that starts at exp the
\* release of the JWT library decides (strict: exp <= now, as a fraction of
\* seconds; otherwise exp < now, in whole seconds).
decode_jwt_token(token, t, strict) ==
  IF token.sig = "none" THEN [error |-> "DecodeError"]
  ELSE IF token.sig # "ok" THEN [error |-> "InvalidSignatureError"]
  ELSE IF (IF strict THEN token.exp * TicksPerSecond <= t ELSE token.exp < Seconds(t))
       THEN [error |-> "ExpiredSignatureError"]
  ELSE token


(***************************************************************************)
(* Requests                                                                *)
(***************************************************************************)
Reqs == 1..NumReqs

Raws == {RawPhones[i] : i \in 1..NumRaw}

NoUserId == 0

IdleReq ==
  [kind |-> "none", pc |-> "idle", phone |-> <<>>, now |-> 0, provider |-> "",
   user_doc |-> None, gen_id |-> NoUserId, before |-> None, after |-> None,
   resp |-> None]

\* an HTTP response; user_id is NoUserId and token is None when not carried
Response(status, detail, token, uid) ==
  [status |-> status, detail |-> detail, token |-> token, user_id |-> uid]

HTTPException(status, detail) == Response(status, detail, None, NoUserId)

\* mutant: the login time is not written with the verified flag
MarkFields_NoLogin(now) == [is_verified |-> TRUE]

\* {"$set": {"is_verified": True, "last_login": now}}
MarkFields(now) == [is_verified |-> TRUE, last_login |-> now]

\* mutant: created_at sits in $set instead of $setOnInsert
ensure_user_on_send_SetCreatedAt(col, phone, now, oid) ==
  upsert_one(col, phone,
             [phone |-> phone, is_verified |-> FALSE],
             [created_at |-> now, last_otp_sent_at |-> now], oid)

\* the upsert of ensure_user_on_send / of the inline update_one of send_otp
ensure_user_on_send(col, phone, now, oid) ==
  upsert_one(col, phone,
             [phone |-> phone, created_at |-> now, is_verified |-> FALSE],
             [last_otp_sent_at |-> now], oid)

\* The store the deployment starts with, for the first phone: no record
\* (UNKNOWN), the record one send-otp leaves (PENDING), or the record a
\* send-otp followed by one approved verify-otp leaves (ACTIVE).
Phone1 == normalize_phone(RawPhones[1])

PendingStore == ensure_user_on_send(<<>>, Phone1, 0, 1)

ActiveStore(e) ==
  IF e = "main"
  THEN upsert_one(PendingStore, Phone1, <<>>, MarkFields(0), 2)
  ELSE update_one(update_one(PendingStore, "phone", Phone1, [user_id |-> 2]),
                  "phone", Phone1, MarkFields(0))

Init ==
  /\ entry \in Entries
  /\ configured \in BOOLEAN
  /\ \E s \in {"UNKNOWN", "PENDING", "ACTIVE"} :
        /\ docs = CASE s = "UNKNOWN" -> <<>>
                    [] s = "PENDING" -> PendingStore
                    [] s = "ACTIVE" -> ActiveStore(entry)
        /\ nextOid = CASE s = "UNKNOWN" -> 1
                       [] s = "PENDING" -> 2
                       [] s = "ACTIVE" -> 3
  /\ clock = 0
  /\ reqs = [r \in Reqs |-> IdleReq]
  /\ tok = None
  /\ auth = None
  /\ profiles = <<>>
  /\ caller = None
  /\ rawPhone = <<>>
  /\ normalized = None

\* request slots are taken in order
CanStart(r) ==
  /\ reqs[r].pc = "idle"
  /\ IF r = 1 THEN TRUE ELSE reqs[r - 1].pc # "idle"

(***************************************************************************)
(* POST /auth/send-otp                                                     *)
(***************************************************************************)
\* phone = normalize_phone(payload.phone); now = datetime.now(), one tick
\* after the request before it read the time
SendOtpStart(r, raw) ==
  /\ CanStart(r)
  /\ clock' = clock + 1
  /\ reqs' = [reqs EXCEPT ![r] =
        [@ EXCEPT !.kind = "send", !.pc = "upsert",
                  !.phone = normalize_phone(raw), !.now = clock']]
  /\ UNCHANGED <<entry, configured, docs, nextOid, tok, auth, profiles,
                 caller, rawPhone, normalized>>

SendOtpUpsert(r) ==
  /\ reqs[r].kind = "send" /\ reqs[r].pc = "upsert"
  /\ docs' = ensure_user_on_send(docs, reqs[r].phone, reqs[r].now, nextOid)
  /\ nextOid' = IF Match(docs, "phone", reqs[r].phone) = 0 THEN nextOid + 1 ELSE nextOid
  /\ reqs' = [reqs EXCEPT ![r] =
        [@ EXCEPT !.pc = "twilio",
                  !.before = find_one(docs, "phone", reqs[r].phone),
                  !.after = find_one(docs', "phone", reqs[r].phone)]]
  /\ UNCHANGED <<entry, configured, clock, tok, auth, profiles, caller,
                 rawPhone, normalized>>

\* provider initiate: not configured, raises (error or timeout), or a status
SendOtpTwilio(r, outcome) ==
  /\ reqs[r].kind = "send" /\ reqs[r].pc = "twilio"
  /\ reqs' = [reqs EXCEPT ![r] =
        [@ EXCEPT !.pc = "done",
                  !.provider = IF configured THEN outcome ELSE "raise",
                  !.resp = IF ~configured
                           THEN HTTPException(500, "not configured")
                           ELSE IF outcome = "raise"
                           THEN HTTPException(500, "Twilio error")
                           ELSE Response(202, outcome, None, NoUserId)]]
  /\ UNCHANGED <<entry, configured, docs, clock, nextOid, tok, auth, profiles,
                 caller, rawPhone, normalized>>


(***************************************************************************)
(* POST /auth/verify-otp                                                   *)
(***************************************************************************)
\* mutant: user_id is read with .get(), a record without it still logs in
VerifyResponse_GetUserId(created_user, phone, t) ==
  IF created_user = None
  THEN HTTPException(500, "Internal Server Error")
  ELSE Response(200, "approved", create_jwt_token(phone, t),
                IF "user_id" \in DOMAIN created_user
                THEN created_user.user_id ELSE NoUserId)

\* return {"status": "approved", "token": token, "user_id": created_user["user_id"]}
\* an absent document or an absent user_id raises outside every try block
VerifyResponse(created_user, phone, t) ==
  IF created_user = None \/ "user_id" \notin DOMAIN created_user
  THEN HTTPException(500, "Internal Server Error")
  ELSE Response(200, "approved", create_jwt_token(phone, t), created_user.user_id)

\* mutant: every status the provider returns counts as approved
IsApproved_AnyStatus(status) == status # "raise"

\* getattr(check, "status", "").lower() != "approved" rejects the request
IsApproved(status) == status = "approved"

\* normalize, provider check, status test; on approval now = datetime.now()
VerifyOtpCheck(r, raw, outcome) ==
  /\ CanStart(r)
  /\ clock' = clock + 1
  /\ LET phone == normalize_phone(raw)
         check == IF configured THEN outcome ELSE "raise"
         rejected(resp) == [reqs[r] EXCEPT !.kind = "verify", !.pc = "done",
                                           !.phone = phone, !.provider = check,
                                           !.resp = resp]
     IN reqs' = [reqs EXCEPT ![r] =
          IF ~configured
          THEN rejected(IF entry = "app"
                        THEN HTTPException(400, "Verification failed")
                        ELSE HTTPException(500, "not configured"))
          ELSE IF check = "raise"
          THEN rejected(HTTPException(400, "Verification failed"))
          ELSE IF ~IsApproved(check)
          THEN rejected(HTTPException(400, "not approved"))
          ELSE [reqs[r] EXCEPT !.kind = "verify", !.phone = phone, !.now = clock',
                               !.provider = check,
                               !.pc = IF entry = "main" THEN "mark_upsert" ELSE "find"]]
  /\ UNCHANGED <<entry, configured, docs, nextOid, tok, auth, profiles,
                 caller, rawPhone, normalized>>

\* mutant: a user_id is generated and attached whenever a record is found
VerifyFind_AlwaysNewId(r) ==
  /\ reqs[r].kind = "verify" /\ reqs[r].pc = "find"
  /\ LET user_doc == find_one(docs, "phone", reqs[r].phone)
     IN reqs' = [reqs EXCEPT ![r] =
          [@ EXCEPT !.user_doc = user_doc, !.gen_id = nextOid,
                    !.pc = IF user_doc = None THEN "insert" ELSE "set_uid"]]
  /\ nextOid' = nextOid + 1
  /\ UNCHANGED <<entry, configured, docs, clock, tok, auth, profiles, caller,
                 rawPhone, normalized>>

\* user_doc = await users_col.find_one({"phone": phone}); ids are generated
VerifyFind(r) ==
  /\ reqs[r].kind = "verify" /\ reqs[r].pc = "find"
  /\ LET user_doc == find_one(docs, "phone", reqs[r].phone)
         needsId == user_doc = None \/ "user_id" \notin DOMAIN user_doc
     IN /\ reqs' = [reqs EXCEPT ![r] =
              [@ EXCEPT !.user_doc = user_doc,
                        !.gen_id = IF needsId THEN nextOid ELSE NoUserId,
                        !.pc = IF user_doc = None THEN "insert"
                               ELSE IF needsId THEN "set_uid" ELSE "mark"]]
        /\ nextOid' = IF needsId THEN nextOid + 1 ELSE nextOid
  /\ UNCHANGED <<entry, configured, docs, clock, tok, auth, profiles, caller,
                 rawPhone, normalized>>

\* the document built when no record was found
new_user(uid, phone, now, oid) ==
  [_id |-> oid, user_id |-> uid, phone |-> phone, created_at |-> now,
   is_verified |-> TRUE, last_login |-> now]

\* await users_col.insert_one(new_user)
VerifyInsert(r) ==
  /\ reqs[r].kind = "verify" /\ reqs[r].pc = "insert"
  /\ LET nu == new_user(reqs[r].gen_id, reqs[r].phone, reqs[r].now, nextOid)
     IN IF DuplicateKeyError(docs, nu, 0, entry)
        THEN /\ docs' = docs
             /\ reqs' = [reqs EXCEPT ![r] =
                   IF entry = "app"
                   THEN [@ EXCEPT !.pc = "refind"]
                   ELSE [@ EXCEPT !.pc = "done",
                                  !.resp = HTTPException(500, "Database error")]]
        ELSE /\ docs' = Append(docs, nu)
             /\ reqs' = [reqs EXCEPT ![r] =
                   [@ EXCEPT !.pc = "done", !.user_doc = nu,
                             !.resp = VerifyResponse(nu, reqs[r].phone, clock)]]
  /\ nextOid' = nextOid + 1
  /\ UNCHANGED <<entry, configured, clock, tok, auth, profiles, caller,
                 rawPhone, normalized>>

\* mutant: the conflict is not caught, the request fails
VerifyRefind_Raise(r) ==
  /\ reqs[r].kind = "verify" /\ reqs[r].pc = "refind"
  /\ reqs' = [reqs EXCEPT ![r] =
        [@ EXCEPT !.pc = "done", !.resp = HTTPException(500, "DB error")]]
  /\ UNCHANGED <<entry, configured, docs, clock, nextOid, tok, auth, profiles,
                 caller, rawPhone, normalized>>

\* except DuplicateKeyError: user_doc = find_one(...); return user_doc
VerifyRefind(r) ==
  /\ reqs[r].kind = "verify" /\ reqs[r].pc = "refind"
  /\ LET user_doc == find_one(docs, "phone", reqs[r].phone)
     IN reqs' = [reqs EXCEPT ![r] =
          [@ EXCEPT !.pc = "done", !.user_doc = user_doc,
                    !.resp = VerifyResponse(user_doc, reqs[r].phone, clock)]]
  /\ UNCHANGED <<entry, configured, docs, clock, nextOid, tok, auth, profiles,
                 caller, rawPhone, normalized>>

\* await users_col.update_one({"phone": phone}, {"$set": {"user_id": gen_id}})
VerifySetUserId(r) ==
  /\ reqs[r].kind = "verify" /\ reqs[r].pc = "set_uid"
  /\ LET i == Match(docs, "phone", reqs[r].phone)
         fields == [user_id |-> reqs[r].gen_id]
         dup == i # 0 /\ DuplicateKeyError(docs, SetFields(docs[i], fields), i, entry)
     IN IF dup
        THEN /\ docs' = docs
             /\ reqs' = [reqs EXCEPT ![r] =
                   IF entry = "app"
                   THEN [@ EXCEPT !.pc = "mark",
                                  !.user_doc = find_one(docs, "phone", reqs[r].phone)]
                   ELSE [@ EXCEPT !.pc = "done",
                                  !.resp = HTTPException(500, "Database error")]]
        ELSE /\ docs' = update_one(docs, "phone", reqs[r].phone, fields)
             /\ reqs' = [reqs EXCEPT ![r] =
                   [@ EXCEPT !.pc = "mark",
                             !.user_doc = SetFields(reqs[r].user_doc, fields)]]
  /\ UNCHANGED <<entry, configured, clock, nextOid, tok, auth, profiles,
                 caller, rawPhone, normalized>>

\* update_one({"phone": phone}, {"$set": {"is_verified": True, "last_login": now}})
VerifyMark(r) ==
  /\ reqs[r].kind = "verify" /\ reqs[r].pc = "mark"
  /\ docs' = update_one(docs, "phone", reqs[r].phone,
                        MarkFields(reqs[r].now))
  /\ reqs' = [reqs EXCEPT ![r] = [@ EXCEPT !.pc = "readback"]]
  /\ UNCHANGED <<entry, configured, clock, nextOid, tok, auth, profiles,
                 caller, rawPhone, normalized>>

\* find_one({"phone": phone}, {"_id": 0}), then the token and the response
VerifyReadBack(r) ==
  /\ reqs[r].kind = "verify" /\ reqs[r].pc = "readback"
  /\ LET created_user == NoId(find_one(docs, "phone", reqs[r].phone))
     IN reqs' = [reqs EXCEPT ![r] =
          [@ EXCEPT !.pc = "done", !.user_doc = created_user,
                    !.resp = VerifyResponse(created_user, reqs[r].phone, clock)]]
  /\ UNCHANGED <<entry, configured, docs, clock, nextOid, tok, auth, profiles,
                 caller, rawPhone, normalized>>

\* src/main.py: update_one(..., {"$set": {is_verified, last_login}}, upsert=True)
VerifyUpsertMain(r) ==
  /\ reqs[r].kind = "verify" /\ reqs[r].pc = "mark_upsert"
  /\ docs' = upsert_one(docs, reqs[r].phone, <<>>,
                        MarkFields(reqs[r].now), nextOid)
  /\ nextOid' = IF Match(docs, "phone", reqs[r].phone) = 0 THEN nextOid + 1 ELSE nextOid
  /\ reqs' = [reqs EXCEPT ![r] =
        [@ EXCEPT !.pc = "done",
                  !.before = find_one(docs, "phone", reqs[r].phone),
                  !.after = find_one(docs', "phone", reqs[r].phone),
                  !.resp = Response(200, "approved",
                                    create_jwt_token(reqs[r].phone, clock), NoUserId)]]
  /\ UNCHANGED <<entry, configured, clock, tok, auth, profiles, caller,
                 rawPhone, normalized>>

(***************************************************************************)
(* DELETE /users/{user_id} (src/anuj.py only)                              *)
(***************************************************************************)
\* res = delete_one({"user_id": user_id}); 404 when nothing was deleted
DeleteUser(r, uid) ==
  /\ entry = "anuj"
  /\ CanStart(r)
  /\ docs' = delete_one(docs, "user_id", uid)
  /\ reqs' = [reqs EXCEPT ![r] =
        [@ EXCEPT !.kind = "delete", !.pc = "done",
                  !.resp = IF Match(docs, "user_id", uid) = 0
                           THEN HTTPException(404, "User not found.")
                           ELSE Response(204, "", None, NoUserId)]]
  /\ UNCHANGED <<entry, configured, clock, nextOid, tok, auth, profiles,
                 caller, rawPhone, normalized>>

SendOutcomes == {"pending", "raise"}
CheckOutcomes == {"approved", "pending", "raise"}

Next ==
  \/ \E r \in Reqs, raw \in Raws : SendOtpStart(r, raw)
  \/ \E r \in Reqs : SendOtpUpsert(r)
  \/ \E r \in Reqs, o \in SendOutcomes : SendOtpTwilio(r, o)
  \/ \E r \in Reqs, raw \in Raws, o \in CheckOutcomes : VerifyOtpCheck(r, raw, o)
  \/ \E r \in Reqs : VerifyFind(r)
  \/ \E r \in Reqs : VerifyInsert(r)
  \/ \E r \in Reqs : VerifyRefind(r)
  \/ \E r \in Reqs : VerifySetUserId(r)
  \/ \E r \in Reqs : VerifyMark(r)
  \/ \E r \in Reqs : VerifyReadBack(r)
  \/ \E r \in Reqs : VerifyUpsertMain(r)
  \/ \E r \in Reqs, uid \in 1..nextOid : DeleteUser(r, uid)

Spec == Init /\ [][Next]_vars


(***************************************************************************)
(* Properties                                                              *)
(***************************************************************************)
InFlight(r) == reqs[r].pc \notin {"idle", "done"}

\* the stored record of a phone (None when there is none)
Identity(phone) == find_one(docs, "phone", phone)

HasField(d, f) == d # None /\ f \in DOMAIN d

\* C1: a record's user_id, once stored, is never replaced by another value
\* and never removed: across every step, a record (identified by its _id)
\* that had a user_id still has the same one.
C1_UserIdWrittenOnce ==
  [][\A i \in 1..Len(docs) :
       "user_id" \in DOMAIN docs[i] =>
          \A j \in 1..Len(docs') :
             docs'[j]._id = docs[i]._id =>
                /\ "user_id" \in DOMAIN docs'[j]
                /\ docs'[j].user_id = docs[i].user_id]_vars

\* C2: in src/app, once no request is in flight, every user_id a verify-otp
\* response carried is the user_id stored in that phone's record.
C2_ReturnedIdIsStored ==
  (entry = "app" /\ \A r \in Reqs : ~InFlight(r)) =>
     \A r \in Reqs :
        (reqs[r].kind = "verify" /\ reqs[r].resp.status = 200) =>
           /\ HasField(Identity(reqs[r].phone), "user_id")
           /\ Identity(reqs[r].phone).user_id = reqs[r].resp.user_id

\* C3: in src/app, at the step where an approved verification returns, the
\* phone's record exists, is verified, has last_login and a user_id, and the
\* returned snapshot carries that user_id.
C3_ApprovedVerifyFinalizes ==
  [][entry = "app" =>
       \A r \in Reqs :
          (reqs[r].kind = "verify" /\ reqs[r].pc # "done" /\ reqs'[r].pc = "done") =>
             LET d == find_one(docs', "phone", reqs[r].phone)
                 snapshot == reqs'[r].user_doc
             IN /\ HasField(d, "is_verified") /\ d.is_verified
                /\ HasField(d, "last_login")
                /\ HasField(d, "user_id")
                /\ HasField(snapshot, "user_id")
                /\ snapshot.user_id = d.user_id]_vars

\* C4: a verify-otp request whose provider check was not approved (another
\* status, an exception, provider not configured) ends at once in an error
\* response without a token, and its step leaves the store unchanged.
C4_RejectedVerifyWritesNothing ==
  [][\A r \in Reqs :
       (reqs'[r] # reqs[r] /\ reqs'[r].kind = "verify"
          /\ reqs'[r].provider # "approved") =>
             /\ docs' = docs
             /\ reqs'[r].pc = "done"
             /\ reqs'[r].resp.status >= 400
             /\ reqs'[r].resp.token = None]_vars

\* C4 witness: a rejected verify-otp for a phone whose record exists
C4_Witness ==
  \E r \in Reqs :
     /\ reqs[r].kind = "verify" /\ reqs[r].provider = "pending"
     /\ reqs[r].pc = "done"
     /\ Identity(reqs[r].phone) # None


\* d2 is d1 with at most field f set or changed
SameExcept(d1, d2, f) ==
  /\ DOMAIN d2 = (DOMAIN d1) \cup {f}
  /\ \A g \in (DOMAIN d1) \ {f} : d2[g] = d1[g]

\* request r is a send-otp request and takes a step
SendStep(r) == reqs'[r] # reqs[r] /\ reqs'[r].kind = "send"

\* C5: no step of a send-otp request changes (or removes) the created_at of
\* a record that exists; the send that finds no record creates it with
\* created_at equal to that request's timestamp.
C5_CreatedAtSetOnce ==
  [][\A r \in Reqs : SendStep(r) =>
       /\ \A i \in 1..Len(docs) :
             /\ Len(docs') >= i
             /\ docs'[i]._id = docs[i]._id
             /\ ("created_at" \in DOMAIN docs[i]) = ("created_at" \in DOMAIN docs'[i])
             /\ "created_at" \in DOMAIN docs[i] => docs'[i].created_at = docs[i].created_at
       /\ (reqs[r].pc = "upsert" /\ Identity(reqs[r].phone) = None) =>
             LET d == find_one(docs', "phone", reqs[r].phone)
             IN HasField(d, "created_at") /\ d.created_at = reqs[r].now]_vars

\* C5 witness: two send-otp requests for one phone have written, the later
\* one at another time than the record's creation
C5_Witness ==
  \E r1, r2 \in Reqs :
     /\ r1 # r2
     /\ reqs[r1].kind = "send" /\ reqs[r1].pc = "done"
     /\ reqs[r2].kind = "send" /\ reqs[r2].pc = "done"
     /\ reqs[r1].phone = reqs[r2].phone
     /\ reqs[r1].before = None
     /\ HasField(Identity(reqs[r1].phone), "created_at")
     /\ Identity(reqs[r1].phone).last_otp_sent_at # Identity(reqs[r1].phone).created_at

\* C6: the write of a send-otp request on a phone whose record exists
\* changes last_otp_sent_at of that record and nothing else: same number of
\* records, every other record and every other field (present or absent)
\* as before.
C6_SendOnExistingRecord ==
  [][\A r \in Reqs :
       (SendStep(r) /\ Identity(reqs[r].phone) # None) =>
          LET i == Match(docs, "phone", reqs[r].phone)
          IN /\ Len(docs') = Len(docs)
             /\ \A j \in 1..Len(docs) : j # i => docs'[j] = docs[j]
             /\ IF reqs[r].pc = "upsert"
                THEN /\ SameExcept(docs[i], docs'[i], "last_otp_sent_at")
                     /\ docs'[i].last_otp_sent_at = reqs[r].now
                ELSE docs'[i] = docs[i]]_vars

\* C6 witness: a send-otp has moved last_otp_sent_at of a verified record
\* that has a user_id
C6_Witness ==
  \E r \in Reqs :
     /\ reqs[r].kind = "send"
     /\ HasField(reqs[r].before, "user_id")
     /\ reqs[r].before.is_verified
     /\ reqs[r].after # reqs[r].before

\* C7: no two records of the collection carry the same phone.
C7_OneRecordPerPhone ==
  \A i, j \in 1..Len(docs) : i # j => docs[i].phone # docs[j].phone

\* C7 witness: a verify-otp found no record and its insert hit the record
\* another request had created meanwhile
C7_Witness ==
  \E r \in Reqs :
     /\ reqs[r].kind = "verify"
     /\ reqs[r].gen_id # NoUserId
     /\ \/ reqs[r].pc = "refind"
        \/ reqs[r].pc = "done" /\ reqs[r].resp.detail = "Database error"
     /\ \E q \in Reqs : reqs[q].kind = "send" /\ reqs[q].phone = reqs[r].phone
                          /\ reqs[q].before = None /\ reqs[q].after # None
     /\ Len(docs) = 1

\* C8: every record with is_verified = true has last_login.
C8_VerifiedHasLastLogin ==
  \A i \in 1..Len(docs) :
     ("is_verified" \in DOMAIN docs[i] /\ docs[i].is_verified) =>
        "last_login" \in DOMAIN docs[i]

\* C8 witness: an approved verify-otp of this run has verified a record
\* that a send-otp had created unverified
C8_Witness ==
  \E r \in Reqs :
     /\ reqs[r].kind = "verify" /\ reqs[r].pc = "done"
     /\ reqs[r].provider = "approved"
     /\ HasField(Identity(reqs[r].phone), "last_otp_sent_at")
     /\ Identity(reqs[r].phone).is_verified
     /\ Identity(reqs[r].phone).last_login = reqs[r].now


\* a send-otp request that ended after the provider call failed (raised,
\* timed out, or was not configured)
ProviderFailed(r) ==
  reqs[r].kind = "send" /\ reqs[r].pc = "done" /\ reqs[r].provider = "raise"

\* the record a send-otp creates for a phone that had none
IsPlaceholder(d, phone, now) ==
  /\ d # None
  /\ DOMAIN d = {"_id", "phone", "created_at", "is_verified", "last_otp_sent_at"}
  /\ d.phone = phone /\ d.is_verified = FALSE
  /\ d.created_at = now /\ d.last_otp_sent_at = now

\* C9 as stated: a send-otp request whose provider call failed ends in an
\* error, and what it wrote differs from what it found at most in the
\* last_otp_sent_at field of the phone's record.
C9_OnlyLastOtpSentAt ==
  \A r \in Reqs : ProviderFailed(r) =>
     /\ reqs[r].resp.status >= 500
     /\ reqs[r].before # None
     /\ SameExcept(reqs[r].before, reqs[r].after, "last_otp_sent_at")

\* C9 amended: a send-otp request whose provider call failed ends in a 500
\* error without a token; its only write is the upsert, which either
\* changed last_otp_sent_at of the record it found or, when the phone had no
\* record, created the unverified placeholder record; no other step of the
\* request and no other record is touched.
C9_FailedSendLeavesUpsertOnly ==
  /\ [](\A r \in Reqs : ProviderFailed(r) =>
           /\ reqs[r].resp.status = 500
           /\ reqs[r].resp.token = None
           /\ IF reqs[r].before = None
              THEN IsPlaceholder(reqs[r].after, reqs[r].phone, reqs[r].now)
              ELSE SameExcept(reqs[r].before, reqs[r].after, "last_otp_sent_at"))
  /\ [][\A r \in Reqs : SendStep(r) =>
          IF reqs[r].pc = "upsert"
          THEN /\ reqs'[r].before = Identity(reqs[r].phone)
               /\ reqs'[r].after = find_one(docs', "phone", reqs[r].phone)
               /\ \A i \in 1..Len(docs) :
                     docs[i].phone # reqs[r].phone => docs'[i] = docs[i]
               /\ Len(docs') = IF Identity(reqs[r].phone) = None
                               THEN Len(docs) + 1 ELSE Len(docs)
          ELSE docs' = docs]_vars

\* C9 witness: the provider call of a send-otp for a phone without record
\* has failed, and the placeholder record is in the store
C9_Witness ==
  \E r \in Reqs :
     /\ ProviderFailed(r)
     /\ reqs[r].before = None
     /\ Identity(reqs[r].phone) # None


(***************************************************************************)
(* The session token over time: one token is issued, the clock runs past   *)
(* its expiry, and the token is presented to get_current_user.             *)
(***************************************************************************)
LastTick == MaxIssue + LifetimeTicks + TicksPerSecond + Horizon

InitToken ==
  /\ entry \in Entries
  /\ configured = TRUE
  /\ docs = <<>>
  /\ clock = 0
  /\ nextOid = 1
  /\ reqs = [r \in Reqs |-> IdleReq]
  /\ tok = None
  /\ auth = None
  /\ profiles = <<>>
  /\ caller = None
  /\ rawPhone = <<>>
  /\ normalized = None

\* time passes, by one tick or by one minute; a token is issued no later
\* than tick MaxIssue
TickSteps == {1, SecondsPerMinute * TicksPerSecond}

TokenTick(d) ==
  /\ clock + d <= (IF tok = None THEN MaxIssue ELSE LastTick)
  /\ clock' = clock + d
  /\ auth' = None
  /\ UNCHANGED <<entry, configured, docs, nextOid, reqs, tok, profiles,
                 caller, rawPhone, normalized>>

\* token = create_jwt_token(phone) for a normalized phone, at tick clock
IssueToken(raw) ==
  /\ tok = None
  /\ tok' = [jwt |-> create_jwt_token(normalize_phone(raw), clock), t |-> clock,
             phone |-> normalize_phone(raw)]
  /\ UNCHANGED <<entry, configured, docs, clock, nextOid, reqs, auth,
                 profiles, caller, rawPhone, normalized>>

\* the token part of get_current_user: decode, read "sub", 401 on failure
get_current_user(token, t, strict, e) ==
  LET payload == decode_jwt_token(token, t, strict)
      raised(x) == "error" \in DOMAIN payload /\ payload.error = x
  IN IF raised("ExpiredSignatureError")
     THEN [status |-> 401, phone |-> <<>>,
           detail |-> IF e = "app" THEN "Invalid token." ELSE "Token expired."]
     ELSE IF "error" \in DOMAIN payload \/ payload.sub = <<>>
     THEN [status |-> 401, phone |-> <<>>, detail |-> "Invalid token."]
     ELSE [status |-> 200, phone |-> payload.sub, detail |-> ""]

ValidateToken(strict) ==
  /\ tok # None
  /\ auth' = get_current_user(tok.jwt, clock, strict, entry)
  /\ UNCHANGED <<entry, configured, docs, clock, nextOid, reqs, tok, profiles,
                 caller, rawPhone, normalized>>

NextToken ==
  \/ \E d \in TickSteps : TokenTick(d)
  \/ \E raw \in Raws : IssueToken(raw)
  \/ \E strict \in BOOLEAN : ValidateToken(strict)

SpecToken == InitToken /\ [][NextToken]_vars

\* the start of the second a tick lies in
WholeSecond(t) == (t \div TicksPerSecond) * TicksPerSecond

\* C10 as stated: a token issued for phone P at time t validates back to P
\* at every time before t + JWT_EXPIRES_MINUTES and fails validation at
\* every time after it.
C10_ValidUntilLifetime ==
  auth # None =>
     /\ clock < tok.t + LifetimeTicks =>
           auth.status = 200 /\ auth.phone = tok.phone
     /\ clock > tok.t + LifetimeTicks => auth.status = 401

\* C10 amended: the token validates back to P at every time before its
\* expiry, which is t cut down to the whole second plus JWT_EXPIRES_MINUTES,
\* and fails validation at every time one second or more after that expiry.
C10_ValidUntilExp ==
  auth # None =>
     /\ clock < WholeSecond(tok.t) + LifetimeTicks =>
           auth.status = 200 /\ auth.phone = tok.phone
     /\ clock >= WholeSecond(tok.t) + LifetimeTicks + TicksPerSecond =>
           auth.status = 401

\* C10 witness: a token issued inside a second was rejected after expiry
C10_Witness ==
  /\ auth # None /\ auth.status = 401
  /\ tok.t # WholeSecond(tok.t)
  /\ clock >= WholeSecond(tok.t) + LifetimeTicks + TicksPerSecond

(***************************************************************************)
(* Authenticated requests: a client presents the issued token, or a token  *)
(* that is unacceptable for another reason, to GET /me.                    *)
(***************************************************************************)
\* what the client presents: the token as issued, a string that is no JWT,
\* the token re-signed with another key, or a signed token without "sub"
Presented == {"issued", "malformed", "wrong_signature", "no_subject"}

Present(token, what) ==
  CASE what = "issued" -> token
    [] what = "malformed" -> [token EXCEPT !.sig = "none"]
    [] what = "wrong_signature" -> [token EXCEPT !.sig = "bad"]
    [] what = "no_subject" -> [token EXCEPT !.sub = <<>>]

\* time passes by one tick or by the token lifetime; the stretch between
\* the last issue time and the first possible expiry is crossed in one step
AuthSteps == {1, LifetimeTicks}

AuthElapse(d) ==
  /\ clock + d <= LastTick
  /\ clock + d <= MaxIssue \/ clock + d >= LifetimeTicks
  /\ clock' = clock + d
  /\ UNCHANGED <<entry, configured, docs, nextOid, reqs, tok, auth, profiles,
                 caller, rawPhone, normalized>>

\* GET /me with Authorization: Bearer <what>; the token part of
\* get_current_user answers, the request records what was presented
Me(r, what, strict) ==
  /\ CanStart(r)
  /\ tok # None
  /\ LET user == get_current_user(Present(tok.jwt, what), clock, strict, entry)
     IN reqs' = [reqs EXCEPT ![r] =
          [@ EXCEPT !.kind = "me", !.pc = "done", !.provider = what,
                    !.phone = user.phone,
                    !.resp = Response(user.status, user.detail, None, NoUserId)]]
  /\ UNCHANGED <<entry, configured, docs, clock, nextOid, tok, auth, profiles,
                 caller, rawPhone, normalized>>

NextAuth ==
  \/ \E d \in AuthSteps : AuthElapse(d)
  \/ \E raw \in Raws : IssueToken(raw)
  \/ \E r \in Reqs, what \in Presented, strict \in BOOLEAN : Me(r, what, strict)

SpecAuth == InitToken /\ [][NextAuth]_vars

\* request r presented a token that was not accepted
Unauthenticated(r) ==
  reqs[r].kind = "me" /\ reqs[r].resp.status # 200

\* C11: any two requests whose token was not accepted, for whatever reason
\* (expired, malformed, wrong signature, missing subject), get the same
\* response: same status and same detail.
C11_FailureReasonHidden ==
  \A r1, r2 \in Reqs :
     (Unauthenticated(r1) /\ Unauthenticated(r2)) =>
        reqs[r1].resp = reqs[r2].resp

(***************************************************************************)
(* The Profiles collection (src/app only): documents keyed by user_id,     *)
(* written by the owner endpoints and deleted by the admin endpoint.  One  *)
(* caller holds a session token and makes profile requests one after the   *)
(* other, while send-otp and verify-otp requests run beside it.            *)
(***************************************************************************)
\* profile requests the caller makes
MaxCalls == 2

\* update_one({"user_id": uid}, {"$set": fields, "$push": {"gallery_images":
\* each of pushed}, "$setOnInsert": onInsert}, upsert=True): the collection after
profile_upsert(col, uid, onInsert, fields, pushed, oid) ==
  LET i == Match(col, "user_id", uid)
      old == IF i = 0 THEN SetFields([_id |-> oid, user_id |-> uid], onInsert)
             ELSE col[i]
      set == SetFields(old, fields)
      new == IF pushed = <<>> THEN set
             ELSE SetFields(set,
                    [gallery_images |->
                       (IF "gallery_images" \in DOMAIN set
                        THEN set.gallery_images ELSE <<>>) \o pushed])
  IN IF i = 0 THEN Append(col, new) ELSE [col EXCEPT ![i] = new]

\* profile_data (None values already dropped) plus updated_at is $set
create_or_update_profile(col, user_id, profile_data, now, oid) ==
  profile_upsert(col, user_id, [created_at |-> now, user_id |-> user_id],
                 SetFields(profile_data, [updated_at |-> now]), <<>>, oid)

add_profile_image(col, user_id, b64_str, now, oid) ==
  profile_upsert(col, user_id, [created_at |-> now, user_id |-> user_id],
                 [profile_image |-> b64_str, updated_at |-> now], <<>>, oid)

add_gallery_image(col, user_id, b64_str, now, oid) ==
  profile_upsert(col, user_id, [created_at |-> now, user_id |-> user_id],
                 <<>>, <<b64_str>>, oid)

delete_profile(col, user_id) == delete_one(col, "user_id", user_id)

\* payload.dict(exclude_none=True) of a ProfileIn: gallery_images defaults to
\* the empty list, so it is present unless the client sends null for it
Payloads ==
  { [gallery_images |-> <<>>],
    [full_name |-> "n1"],
    [full_name |-> "n1", gallery_images |-> <<"g0">>] }

\* base64 text of an uploaded file
Images == {"i1"}

IdleCaller ==
  [pc |-> "idle", kind |-> "none", phone |-> <<>>, user_id |-> NoUserId,
   calls |-> 0, status |-> 0]

\* the deployment is src/app; the first phone has the record a send-otp
\* left, and nobody is logged in yet
InitProfile ==
  /\ entry = "app"
  /\ configured = TRUE
  /\ docs = PendingStore
  /\ nextOid = 2
  /\ clock = 0
  /\ reqs = [r \in Reqs |-> IdleReq]
  /\ tok = None
  /\ auth = None
  /\ profiles = <<>>
  /\ caller = IdleCaller
  /\ rawPhone = <<>>
  /\ normalized = None

\* the tokens a client holds: those the verify-otp responses carried
Tokens ==
  {reqs[r].resp.token :
     r \in {q \in Reqs : reqs[q].resp # None /\ reqs[q].resp.token # None}}

Kinds == {"createProfile", "upload-profile-image", "upload-gallery-image"}

\* Depends(get_current_user): decode the token, find the identity record of
\* its phone, hand current_user to the route
CallerAuth(kind, token, strict) ==
  /\ caller.pc \in {"idle", "done"}
  /\ caller.calls < MaxCalls
  /\ LET user == get_current_user(token, clock, strict, entry)
         user_doc == NoId(find_one(docs, "phone", user.phone))
         next == [caller EXCEPT !.kind = kind, !.phone = user.phone,
                                !.calls = @ + 1, !.user_id = NoUserId]
     IN caller' =
          IF user.status # 200
          THEN [next EXCEPT !.pc = "done", !.status = user.status]
          ELSE IF user_doc = None
          THEN [next EXCEPT !.pc = "done", !.status = 404]
          ELSE [next EXCEPT !.pc = "write", !.status = 0,
                            !.user_id = IF "user_id" \in DOMAIN user_doc
                                        THEN user_doc.user_id ELSE NoUserId]
  /\ UNCHANGED <<entry, configured, docs, clock, nextOid, reqs, tok, auth,
                 profiles, rawPhone, normalized>>

\* the store write of a profile request; now = datetime.now() in the service
CallerWrite(kind, after) ==
  /\ caller.pc = "write" /\ caller.kind = kind
  /\ clock' = clock + 1
  /\ profiles' = after
  /\ nextOid' = IF Len(after) > Len(profiles) THEN nextOid + 1 ELSE nextOid
  /\ caller' = [caller EXCEPT !.pc = "readback"]
  /\ UNCHANGED <<entry, configured, docs, reqs, tok, auth, rawPhone,
                 normalized>>

upsert_my_profile(payload) ==
  CallerWrite("createProfile",
     create_or_update_profile(profiles, caller.user_id, payload, clock + 1, nextOid))

upload_profile_image(b64) ==
  CallerWrite("upload-profile-image",
     add_profile_image(profiles, caller.user_id, b64, clock + 1, nextOid))

upload_gallery_image(b64) ==
  CallerWrite("upload-gallery-image",
     add_gallery_image(profiles, caller.user_id, b64, clock + 1, nextOid))

\* find_one({"user_id": user_id}, {"_id": 0}) and the 200 response
CallerReadBack ==
  /\ caller.pc = "readback"
  /\ caller' = [caller EXCEPT !.pc = "done", !.status = 200]
  /\ UNCHANGED <<entry, configured, docs, clock, nextOid, reqs, tok, auth,
                 profiles, rawPhone, normalized>>

\* DELETE /profiles/{user_id}
delete_profile_by_userid(uid) ==
  /\ Match(profiles, "user_id", uid) # 0
  /\ profiles' = delete_profile(profiles, uid)
  /\ UNCHANGED <<entry, configured, docs, clock, nextOid, reqs, tok, auth,
                 caller, rawPhone, normalized>>

\* a step of a send-otp or verify-otp request of src/app
IdentityStep ==
  \/ \E r \in Reqs, raw \in Raws : SendOtpStart(r, raw)
  \/ \E r \in Reqs : SendOtpUpsert(r)
  \/ \E r \in Reqs, o \in SendOutcomes : SendOtpTwilio(r, o)
  \/ \E r \in Reqs, raw \in Raws, o \in CheckOutcomes : VerifyOtpCheck(r, raw, o)
  \/ \E r \in Reqs : VerifyFind(r)
  \/ \E r \in Reqs : VerifyInsert(r)
  \/ \E r \in Reqs : VerifyRefind(r)
  \/ \E r \in Reqs : VerifySetUserId(r)
  \/ \E r \in Reqs : VerifyMark(r)
  \/ \E r \in Reqs : VerifyReadBack(r)

NextProfile ==
  \/ IdentityStep
  \/ \E k \in Kinds, token \in Tokens, strict \in BOOLEAN : CallerAuth(k, token, strict)
  \/ \E payload \in Payloads : upsert_my_profile(payload)
  \/ \E b64 \in Images : upload_profile_image(b64)
  \/ \E b64 \in Images : upload_gallery_image(b64)
  \/ CallerReadBack
  \/ \E uid \in 0..nextOid : delete_profile_by_userid(uid)

SpecProfile == InitProfile /\ [][NextProfile]_vars

\* the caller's profile request writes in this step
ProfileWrite == caller.pc = "write" /\ caller'.pc = "readback"

\* the profile of a user_id (None when there is none)
Profile(col, uid) == find_one(col, "user_id", uid)

\* C12: every write of a profile request (createProfile, upload of a profile
\* image, upload of a gallery image) leaves the written profile with
\* updated_at equal to the time of the write; created_at is the time of the
\* write that created the profile and is the same after every later write.
C12_TimestampsOnWrite ==
  [][ProfileWrite =>
        LET old == Profile(profiles, caller.user_id)
            new == Profile(profiles', caller.user_id)
        IN /\ HasField(new, "updated_at")
           /\ new.updated_at = clock'
           /\ HasField(new, "created_at")
           /\ new.created_at = IF old = None THEN clock' ELSE old.created_at]_vars

gallery_images(d) ==
  IF "gallery_images" \in DOMAIN d THEN d.gallery_images ELSE <<>>

IsPrefix(s, t) == Len(s) <= Len(t) /\ SubSeq(t, 1, Len(s)) = s

\* C13: after any write of a profile request on an existing profile, the
\* gallery_images list the profile had is a prefix of the list it has.
C13_GalleryAppendOnly ==
  [][ProfileWrite =>
        LET old == Profile(profiles, caller.user_id)
            new == Profile(profiles', caller.user_id)
        IN old # None => IsPrefix(gallery_images(old), gallery_images(new))]_vars

\* C14: a step of a send-otp or verify-otp request leaves the Profiles
\* collection as it is, and a write of a profile request creates
\* or changes only the profile whose user_id is the user_id stored in the
\* identity record of the phone of the caller's token.
C14_OwnerOnly ==
  [][/\ reqs' # reqs => profiles' = profiles
     /\ ProfileWrite =>
           LET owner == Identity(caller.phone)
           IN /\ HasField(owner, "user_id")
              /\ \A i \in 1..Len(profiles') :
                    (i > Len(profiles) \/ profiles'[i] # profiles[i]) =>
                       profiles'[i].user_id = owner.user_id]_vars

(***************************************************************************)
(* normalize_phone on its own: one input string over digits, "+", " " and  *)
(* "-" is given, and the function is applied to it.                        *)
(***************************************************************************)
\* longest run of digits an input carries
MaxDigits == 11

DigitChars == <<"0", "1", "2", "3", "4", "5", "6", "7", "8", "9">>

\* n digits in a row, the first one being digit number first
Run(first, n) == [i \in 1..n |-> DigitChars[((first + i - 1) % 10) + 1]]

Leads == {<<>>, <<" ">>, <<"+">>, <<" ", "+">>, <<"-">>}
Trails == {<<>>, <<" ">>, <<"-">>}
Separators == {<<>>, <<"-">>, <<" ">>, <<"+">>, <<"-", " ">>}

\* lead, n digits with one separator somewhere inside, trail
InputsOf(n) ==
  { lead \o SubSeq(Run(first, n), 1, k) \o sep \o SubSeq(Run(first, n), k + 1, n)
      \o trail :
      lead \in Leads, trail \in Trails, sep \in Separators,
      first \in {0, 9}, k \in 0..n }

Inputs == UNION {InputsOf(n) : n \in 0..MaxDigits}

InitPhone ==
  /\ entry \in Entries
  /\ configured = TRUE
  /\ docs = <<>>
  /\ clock = 0
  /\ nextOid = 1
  /\ reqs = [r \in Reqs |-> IdleReq]
  /\ tok = None
  /\ auth = None
  /\ profiles = <<>>
  /\ caller = None
  /\ rawPhone \in Inputs
  /\ normalized = None

\* phone = normalize_phone(payload.phone)
Normalize ==
  /\ normalized = None
  /\ normalized' = [phone |-> normalize_phone(rawPhone)]
  /\ UNCHANGED <<entry, configured, docs, clock, nextOid, reqs, tok, auth,
                 profiles, caller, rawPhone>>

NextPhone == Normalize

SpecPhone == InitPhone /\ [][NextPhone]_vars

\* the input without the blanks at its two ends
Trimmed(s) ==
  LET inked == {i \in 1..Len(s) : s[i] # " "}
  IN IF inked = {} THEN <<>>
     ELSE SubSeq(s, CHOOSE i \in inked : \A j \in inked : i <= j,
                    CHOOSE i \in inked : \A j \in inked : i >= j)

\* the digits of the input, in their order
DigitsIn(s) == SelectSeq(s, isdigit)

StartsWithPlus(s) == s # <<>> /\ s[1] = "+"

\* C15 as stated: normalize_phone returns the trimmed input when that
\* starts with "+"; otherwise +91 and the digits when there are exactly ten;
\* otherwise +91 and the last ten digits when there are exactly eleven and
\* the first is 0; otherwise "+" and the digits.  And on every input that
\* starts with "+" it is the identity.
C15_RulesAndIdentity ==
  normalized # None =>
     LET t == Trimmed(rawPhone)
         d == DigitsIn(rawPhone)
     IN /\ normalized.phone =
              IF StartsWithPlus(t) THEN t
              ELSE IF Len(d) = 10 THEN <<"+", "9", "1">> \o d
              ELSE IF Len(d) = 11 /\ d[1] = "0"
                   THEN <<"+", "9", "1">> \o SubSeq(d, 2, 11)
              ELSE <<"+">> \o d
        /\ StartsWithPlus(rawPhone) => normalized.phone = rawPhone

\* C15 amended: the same four rules, in order; and on every input that
\* starts with "+" and does not end in a blank it is the identity.
C15_RulesAndIdentityOnTrimmed ==
  normalized # None =>
     LET t == Trimmed(rawPhone)
         d == DigitsIn(rawPhone)
     IN /\ normalized.phone =
              IF StartsWithPlus(t) THEN t
              ELSE IF Len(d) = 10 THEN <<"+", "9", "1">> \o d
              ELSE IF Len(d) = 11 /\ d[1] = "0"
                   THEN <<"+", "9", "1">> \o SubSeq(d, 2, 11)
              ELSE <<"+">> \o d
        /\ (StartsWithPlus(rawPhone) /\ rawPhone[Len(rawPhone)] # " ") =>
              normalized.phone = rawPhone

\* C15 witness: eleven digits with a leading 0 and some other character,
\* no "+" in front, were cut to the last ten digits behind +91
C15_Witness ==
  /\ normalized # None
  /\ ~StartsWithPlus(Trimmed(rawPhone))
  /\ Len(DigitsIn(rawPhone)) = 11 /\ DigitsIn(rawPhone)[1] = "0"
  /\ Len(rawPhone) > 11
  /\ normalized.phone = <<"+", "9", "1">> \o SubSeq(DigitsIn(rawPhone), 2, 11)

(***************************************************************************)
(* Properties of the reconciliation (specification Spec)                   *)
(***************************************************************************)
\* request r is an approved verify-otp request and takes a step
VerifyStep(r) ==
  /\ reqs'[r] # reqs[r]
  /\ reqs'[r].kind = "verify"
  /\ reqs'[r].provider = "approved"

\* the response of a completed verification: 200, a token, a user_id
Completed(resp) ==
  /\ resp # None
  /\ resp.status = 200
  /\ resp.token # None
  /\ resp.user_id # NoUserId

\* C16: in src/app, an approved verify-otp request whose insert meets a
\* duplicate-key conflict does not end there: it re-reads the record, and
\* after the re-read it completes with 200, a token and a user_id.
C16_ConflictRecovered ==
  [][entry = "app" =>
       \A r \in Reqs : VerifyStep(r) =>
          /\ (reqs[r].pc = "insert" /\ docs' = docs) => reqs'[r].pc = "refind"
          /\ reqs[r].pc = "refind" =>
                reqs'[r].pc = "done" /\ Completed(reqs'[r].resp)]_vars

verified(d) == "is_verified" \in DOMAIN d /\ d.is_verified

\* C17: whatever the entry point, a record that a step creates verified or
\* turns from unverified to verified has a user_id after that step: no
\* request produces a verified record without a user_id.
C17_VerifiedHasUserId ==
  [][\A j \in 1..Len(docs') :
       (/\ verified(docs'[j])
        /\ \A i \in 1..Len(docs) :
              docs[i]._id = docs'[j]._id => ~verified(docs[i])) =>
          "user_id" \in DOMAIN docs'[j]]_vars

\* an ACTIVE record: verified, with a user_id
Active(d) == d # None /\ verified(d) /\ "user_id" \in DOMAIN d

\* C18: in src/app, an approved verify-otp request that finds an ACTIVE
\* record generates no user_id and goes straight to the login update; that
\* update changes, in the whole store, only is_verified (true) and
\* last_login (the request's timestamp) of the phone's record, so user_id,
\* phone, created_at and last_otp_sent_at stay as they were, whatever a
\* re-send wrote before; the request then answers 200 with the stored
\* user_id and writes nothing more.
C18_ReloginFrame ==
  [][entry = "app" =>
       \A r \in Reqs : VerifyStep(r) =>
          LET old == Identity(reqs'[r].phone)
              new == find_one(docs', "phone", reqs'[r].phone)
              i == Match(docs, "phone", reqs'[r].phone)
          IN /\ (reqs[r].pc = "find" /\ Active(old)) =>
                   /\ reqs'[r].pc = "mark"
                   /\ reqs'[r].gen_id = NoUserId
                   /\ docs' = docs
             /\ (reqs[r].pc = "mark" /\ Active(reqs[r].user_doc)) =>
                   /\ old # None /\ new # None
                   /\ Len(docs') = Len(docs)
                   /\ \A j \in 1..Len(docs) : j # i => docs'[j] = docs[j]
                   /\ DOMAIN new = DOMAIN old \cup {"is_verified", "last_login"}
                   /\ \A f \in DOMAIN old \ {"is_verified", "last_login"} :
                         new[f] = old[f]
                   /\ new.is_verified
                   /\ new.last_login = reqs[r].now
                   /\ reqs'[r].pc = "readback"
             /\ (reqs[r].pc = "readback" /\ Active(reqs[r].user_doc)) =>
                   /\ docs' = docs
                   /\ reqs'[r].pc = "done"
                   /\ Completed(reqs'[r].resp)
                   /\ reqs'[r].resp.user_id = old.user_id]_vars

\* C18 witness: a verified user re-sent a code and then logged in again:
\* the record carries the user_id and created_at it had, the re-send's
\* last_otp_sent_at and the new last_login
C18_Witness ==
  \E r, q \in Reqs :
     /\ reqs[q].kind = "send" /\ reqs[q].pc = "done"
     /\ Active(reqs[q].before)
     /\ reqs[r].kind = "verify" /\ reqs[r].pc = "done"
     /\ reqs[r].phone = reqs[q].phone
     /\ reqs[r].gen_id = NoUserId
     /\ Completed(reqs[r].resp)
     /\ reqs[q].now < reqs[r].now
     /\ LET d == Identity(reqs[r].phone)
        IN /\ d.user_id = reqs[q].before.user_id
           /\ d.created_at = reqs[q].before.created_at
           /\ d.last_otp_sent_at = reqs[q].now
           /\ d.last_login = reqs[r].now
           /\ d.last_login # reqs[q].before.last_login

\* the insert of verify-otp request q succeeded: q returned the document it
\* built, with the user_id q generated
Inserted(q) ==
  /\ reqs[q].kind = "verify" /\ reqs[q].pc = "done"
  /\ reqs[q].gen_id # NoUserId
  /\ HasField(reqs[q].user_doc, "_id")
  /\ HasField(reqs[q].user_doc, "user_id")
  /\ reqs[q].user_doc.user_id = reqs[q].gen_id

\* C19: in src/app, of the approved verify-otp requests that found no
\* record for a phone, at most one inserts: an insert succeeds when the
\* phone still has no record and then answers with the user_id it inserted;
\* otherwise it writes nothing and goes on to re-read, and the re-read after
\* another request's successful insert answers 200 with the user_id that
\* request inserted.
C19_LoserAdoptsWinner ==
  /\ [](entry = "app" =>
          \A r, q \in Reqs :
             (r # q /\ Inserted(r) /\ Inserted(q)) => reqs[r].phone # reqs[q].phone)
  /\ [][entry = "app" =>
          \A r \in Reqs : VerifyStep(r) =>
             /\ reqs[r].pc = "insert" =>
                   IF Identity(reqs[r].phone) = None
                   THEN /\ Len(docs') = Len(docs) + 1
                        /\ docs'[Len(docs')].user_id = reqs[r].gen_id
                        /\ docs'[Len(docs')].phone = reqs[r].phone
                        /\ Completed(reqs'[r].resp)
                        /\ reqs'[r].resp.user_id = reqs[r].gen_id
                   ELSE docs' = docs /\ reqs'[r].pc = "refind"
             /\ reqs[r].pc = "refind" =>
                   \A q \in Reqs :
                      (q # r /\ Inserted(q) /\ reqs[q].phone = reqs[r].phone) =>
                         /\ docs' = docs
                         /\ reqs'[r].pc = "done"
                         /\ Completed(reqs'[r].resp)
                         /\ reqs'[r].resp.user_id = reqs[q].resp.user_id]_vars

\* C19 witness: two approved verify-otp requests for one phone both found no
\* record; one inserted, the other met the conflict, re-read and answered
\* with the winner's user_id
C19_Witness ==
  \E r, q \in Reqs :
     /\ r # q
     /\ Inserted(q)
     /\ reqs[r].kind = "verify" /\ reqs[r].pc = "done"
     /\ reqs[r].phone = reqs[q].phone
     /\ reqs[r].gen_id # NoUserId
     /\ reqs[r].gen_id # reqs[q].gen_id
     /\ Completed(reqs[r].resp)
     /\ reqs[r].resp.user_id = reqs[q].gen_id
     /\ Len(docs) = 1
     /\ docs[1].user_id = reqs[q].gen_id

\* request r's response, given in this step, carries a token
IssuesToken(r) ==
  /\ reqs[r].resp = None
  /\ reqs'[r].resp # None
  /\ reqs'[r].resp.token # None

\* C20: in src/app, a response carries a token only if it is the response
\* of a verify-otp request whose provider check was approved; the token's
\* subject is the request's phone, the record the reconciler returned has a
\* user_id, which the response carries, and at that step the phone's stored
\* record has a user_id.  No send-otp and no rejected or failed verify-otp
\* response carries a token.
C20_TokenOnlyWithUserId ==
  [][entry = "app" =>
       \A r \in Reqs : IssuesToken(r) =>
          /\ reqs'[r].kind = "verify"
          /\ reqs'[r].provider = "approved"
          /\ reqs'[r].resp.status = 200
          /\ reqs'[r].resp.token.sub = reqs'[r].phone
          /\ HasField(reqs'[r].user_doc, "user_id")
          /\ reqs'[r].resp.user_id = reqs'[r].user_doc.user_id
          /\ HasField(find_one(docs', "phone", reqs'[r].phone), "user_id")]_vars

\* C20 witness: an approved verify-otp attached a user_id to the record a
\* send-otp had left and answered with a token for that phone
C20_Witness ==
  \E r \in Reqs :
     /\ entry = "app"
     /\ reqs[r].kind = "verify" /\ reqs[r].pc = "done"
     /\ reqs[r].gen_id # NoUserId
     /\ Completed(reqs[r].resp)
     /\ reqs[r].resp.token.sub = reqs[r].phone
     /\ HasField(Identity(reqs[r].phone), "last_otp_sent_at")
     /\ Identity(reqs[r].phone).user_id = reqs[r].resp.user_id

====
